---- MODULE Spec2Model ----
(***************************************************************************)
(* A model of autoboot (src/autoboot/cli.py): the scaffolding functions    *)
(* ensure_gitignore and create_license on file texts, and main's sequence  *)
(* of steps with the outcomes of the external processes and of the HTTP    *)
(* call drawn nondeterministically.  A run starts where main has parsed    *)
(* its command line.                                                       *)
(*                                                                         *)
(* A text is a sequence of chunks.  The chunk NL is the newline character; *)
(* every other chunk is a run of characters holding no newline.  A line is *)
(* the sequence of chunks between two newlines, so that two chunks written *)
(* next to each other with no NL between them form ONE line.               *)
(***************************************************************************)
EXTENDS Integers, Sequences, FiniteSets, TLC

VARIABLES
    giHist,      \* texts of .gitignore: the initial one, then one per call of ensure_gitignore
    licHist,     \* texts of LICENSE: the initial one, then one per call of create_license
    giRets,      \* return values of the calls of ensure_gitignore
    licRets,     \* return values of the calls of create_license
    pc,          \* the statement of main that runs next
    exitCode,    \* the exit status of the process, NoExit while it runs
    trace,       \* the steps started so far, each with how it ended
    out,         \* the messages printed
    cmds,        \* the external commands and requests issued, in order
    args,        \* the parsed command line
    env,         \* the two credential environment variables
    token,       \* main's local variable token
    hasGitDir,   \* (root / ".git").exists()
    hasReq,      \* (root / "requirements.txt").exists()
    origin,      \* the URL of the remote named origin, NoRemote if there is none
    written,     \* the files written by this run
    resp,        \* the answer of the creation endpoint
    commitRes,   \* how git commit ended: its return code and captured output
    auditRes,    \* how the commands of pip_audit ended
    banditRes,   \* how the commands of bandit_scan ended
    pushedTo     \* the URL the push went to, NoRemote if no push ran

vars == <<giHist, licHist, giRets, licRets, pc, exitCode, trace, out, cmds, args,
          env, token, hasGitDir, hasReq, origin, written, resp, commitRes, auditRes,
          banditRes, pushedTo>>

scaffoldVars == <<giHist, licHist, giRets, licRets>>

\* ------------------------------------------------------------------ bounds

\* longest initial .gitignore text enumerated, in chunks
MaxFileLen == 4

\* calls of each scaffolding function in a scaffolding run
MaxRuns == 2

\* ------------------------------------------------------------------- texts

NL == "\n"

Last(s) == s[Len(s)]

RECURSIVE Join(_, _)
\* sep.join(lines): the lines with sep between each two
Join(lines, sep) ==
    IF lines = <<>> THEN <<>>
    ELSE IF Len(lines) = 1 THEN lines[1]
    ELSE lines[1] \o sep \o Join(Tail(lines), sep)

RECURSIVE SplitFrom(_, _)
\* the lines of text s, cur being the line read so far
SplitFrom(s, cur) ==
    IF s = <<>> THEN (IF cur = <<>> THEN <<>> ELSE <<cur>>)
    ELSE IF Head(s) = NL THEN <<cur>> \o SplitFrom(Tail(s), <<>>)
    ELSE SplitFrom(Tail(s), Append(cur, Head(s)))

\* str.splitlines(): a final newline opens no further line, "" has no line
SplitLines(s) == SplitFrom(s, <<>>)

InSeq(x, s) == \E i \in 1..Len(s) : s[i] = x

\* GITIGNORE_TEMPLATE, line by line ("" is a blank line)
TemplateRows ==
    << "# Python", "__pycache__/", "*.py[cod]", "*.pyo", "*.pyd", "*.so",
       "*.egg-info/", "dist/", "build/",
       "",
       "# Virtual env", ".venv/", "venv/", "env/",
       "",
       "# Editors", ".vscode/", ".idea/",
       "",
       "# OS", ".DS_Store", "Thumbs.db",
       "",
       "# Env and secrets", ".env", "*.env",
       "",
       "# Streamlit", ".streamlit/",
       "",
       "# Jupyter", ".ipynb_checkpoints" >>

RowLine(r) == IF r = "" THEN <<>> ELSE <<r>>

\* dedent("""...""").strip() + "\n": the rows joined by newlines, one final newline
GITIGNORE_TEMPLATE ==
    Join([i \in 1..Len(TemplateRows) |-> RowLine(TemplateRows[i])], <<NL>>) \o <<NL>>

\* MIT_LICENSE, its paragraphs abbreviated to one chunk each
MIT_LICENSE ==
    << "MIT License", NL, NL,
       "Copyright (c) YOUR NAME", NL, NL,
       "Permission is hereby granted, free of charge, ...", NL, NL,
       "The above copyright notice and this permission notice ...", NL, NL,
       "THE SOFTWARE IS PROVIDED \"AS IS\", ...", NL >>

\* ------------------------------------------------------------------- files

\* a path that does not exist
NoFile == [exists |-> FALSE, text |-> <<>>]

File(t) == [exists |-> TRUE, text |-> t]

\* ------------------------------------------------------------- scaffolding

RECURSIVE MissingFrom(_, _)
\* [ln for ln in lines if ln and ln not in existing]
MissingFrom(lines, existing) ==
    IF lines = <<>> THEN <<>>
    ELSE (IF Head(lines) # <<>> /\ ~InSeq(Head(lines), existing)
          THEN <<Head(lines)>> ELSE <<>>)
         \o MissingFrom(Tail(lines), existing)

RECURSIVE NonBlank(_)
\* [ln for ln in lines if ln]
NonBlank(lines) ==
    IF lines = <<>> THEN <<>>
    ELSE (IF Head(lines) # <<>> THEN <<Head(lines)>> ELSE <<>>) \o NonBlank(Tail(lines))

\* a to_add that forgets the test "ln not in existing"
ToAddNoMembership(existing) == NonBlank(SplitLines(GITIGNORE_TEMPLATE))

\* to_add of ensure_gitignore
ToAdd(existing) == MissingFrom(SplitLines(GITIGNORE_TEMPLATE), existing)

\* an appended text that forgets the newline written first
AppendedNoLeadingNewline(to_add) == Join(to_add, <<NL>>) \o <<NL>>

\* the text ensure_gitignore appends: "\n" + "\n".join(to_add) + "\n"
Appended(to_add) == <<NL>> \o Join(to_add, <<NL>>) \o <<NL>>

\* ensure_gitignore(root) on the file f: the file afterwards, the value returned,
\* the message printed
ensure_gitignore(f) ==
    IF ~f.exists
    THEN [file |-> File(GITIGNORE_TEMPLATE), ret |-> TRUE,
          msg |-> "[gitignore] Created .gitignore"]
    ELSE LET existing == SplitLines(f.text)
             to_add == ToAdd(existing)
         IN IF to_add # <<>>
            THEN [file |-> File(f.text \o Appended(to_add)), ret |-> TRUE,
                  msg |-> "[gitignore] Updated .gitignore"]
            ELSE [file |-> f, ret |-> FALSE, msg |-> "[gitignore] .gitignore is fine"]

\* a create_license that writes the template whether or not the file exists
create_license_overwriting(f) ==
    [file |-> File(MIT_LICENSE), ret |-> ~f.exists,
     msg |-> "[license] Created LICENSE (replace YOUR NAME with your name)"]

\* create_license(root) on the file f
create_license(f) ==
    IF f.exists
    THEN [file |-> f, ret |-> FALSE, msg |-> "[license] LICENSE already exists"]
    ELSE [file |-> File(MIT_LICENSE), ret |-> TRUE,
          msg |-> "[license] Created LICENSE (replace YOUR NAME with your name)"]

\* ------------------------------------------------------ the process and main

\* exitCode while the process runs
NoExit == -1

\* no remote of that name; no push yet
NoRemote == "<none>"

\* os.environ.get(name) of a variable that is not set
Unset == "<unset>"

\* a value Python takes as true in "not token" and in "a or b"
Truthy(v) == v # Unset /\ v # ""

EnvValues == {Unset, "", "ghp_A"}

UrlNew == "https://github.com/u/new.git"
UrlOld == "https://github.com/u/old.git"
HtmlNew == "https://github.com/u/new"

\* a command of the step has not run
NotRun == [ran |-> FALSE]

\* no request has been answered
NoResponse == [kind |-> "none"]

\* the steps of main, in the order of its statements
StepOrder ==
    << "ensure_git_installed", "ensure_gitignore", "create_license", "init_git",
       "pip_audit", "bandit_scan", "token", "create_github_repo",
       "connect_remote_and_push", "summary" >>

\* the requests and commands that go to the network
NetworkCmds ==
    { "pip install pip-audit", "pip_audit -r requirements.txt", "pip install bandit",
      "POST https://api.github.com/user/repos", "git push -u origin" }

\* a main that looks the credential up before the audit and the scan
FollowingTokenFirst(step) ==
    CASE step = "ensure_git_installed" -> "ensure_gitignore"
      [] step = "ensure_gitignore" -> "create_license"
      [] step = "create_license" -> "init_git"
      [] step = "init_git" -> "token"
      [] step = "token" -> "pip_audit"
      [] step = "pip_audit" -> "bandit_scan"
      [] step = "bandit_scan" -> "create_github_repo"
      [] step = "create_github_repo" -> "connect_remote_and_push"
      [] step = "connect_remote_and_push" -> "summary"

\* the statement of main that follows a step that returned
Following(step) ==
    CASE step = "ensure_git_installed" -> "ensure_gitignore"
      [] step = "ensure_gitignore" -> "create_license"
      [] step = "create_license" -> "init_git"
      [] step = "init_git" -> "pip_audit"
      [] step = "pip_audit" -> "bandit_scan"
      [] step = "bandit_scan" -> "token"
      [] step = "token" -> "create_github_repo"
      [] step = "create_github_repo" -> "connect_remote_and_push"
      [] step = "connect_remote_and_push" -> "summary"

\* step s has run and ended as kind
Ended(s, kind) == Append(trace, [step |-> s, kind |-> kind])

\* sys.exit(code)
Exit(code) == pc' = "exit" /\ exitCode' = code

\* an exception nobody catches: the interpreter prints the traceback and exits with 1
Uncaught == Exit(1)

\* .gitignore texts main starts from: none, partly the template
MainGitignores ==
    { NoFile, File(<<"# Python", NL, "dist/", NL, "my-notes/">>) }

\* LICENSE texts main starts from: none, empty, another licence
MainLicenses ==
    { NoFile, File(<<>>), File(<<"Apache License", NL>>) }

Init ==
    /\ giHist \in { <<f>> : f \in MainGitignores }
    /\ licHist \in { <<f>> : f \in MainLicenses }
    /\ giRets = <<>>
    /\ licRets = <<>>
    /\ pc = "ensure_git_installed"
    /\ exitCode = NoExit
    /\ trace = <<>>
    /\ out = {}
    /\ cmds = <<>>
    /\ args \in [no_audit : BOOLEAN, bandit : BOOLEAN]
    /\ env \in [GITHUB_TOKEN : EnvValues, GH_TOKEN : {Unset, "ghp_B"}]
    /\ token = Unset
    /\ hasGitDir \in BOOLEAN
    /\ hasReq \in BOOLEAN
    \* a directory that is no repository yet has no remote
    /\ origin \in (IF hasGitDir THEN {NoRemote, UrlOld, UrlNew} ELSE {NoRemote})
    /\ written = {}
    /\ resp = NoResponse
    /\ commitRes = NotRun
    /\ auditRes = NotRun
    /\ banditRes = NotRun
    /\ pushedTo = NoRemote

\* ensure_git_installed()
EnsureGitInstalled ==
    /\ pc = "ensure_git_installed"
    /\ cmds' = Append(cmds, "git --version")
    /\ \E ok \in BOOLEAN :
        IF ok
        THEN /\ out' = out \cup {"[git] version"}
             /\ trace' = Ended("ensure_git_installed", "ok")
             /\ pc' = Following("ensure_git_installed")
             /\ UNCHANGED exitCode
        ELSE /\ out' = out \cup {"[git] git is not installed or not on PATH"}
             /\ trace' = Ended("ensure_git_installed", "git_missing")
             /\ Exit(1)
    /\ UNCHANGED <<scaffoldVars, args, env, token, hasGitDir, hasReq, origin, written,
                   resp, commitRes, auditRes, banditRes, pushedTo>>

\* one call of ensure_gitignore(root)
CallEnsureGitignore ==
    LET r == ensure_gitignore(Last(giHist))
    IN /\ giHist' = Append(giHist, r.file)
       /\ giRets' = Append(giRets, r.ret)
       /\ out' = out \cup {r.msg}
       /\ written' = IF r.ret THEN written \cup {".gitignore"} ELSE written

\* one call of create_license(root)
CallCreateLicense ==
    LET r == create_license(Last(licHist))
    IN /\ licHist' = Append(licHist, r.file)
       /\ licRets' = Append(licRets, r.ret)
       /\ out' = out \cup {r.msg}
       /\ written' = IF r.ret THEN written \cup {"LICENSE"} ELSE written

\* main: ensure_gitignore(root)
EnsureGitignore ==
    /\ pc = "ensure_gitignore"
    /\ CallEnsureGitignore
    /\ trace' = Ended("ensure_gitignore", "ok")
    /\ pc' = Following("ensure_gitignore")
    /\ UNCHANGED <<licHist, licRets, exitCode, cmds, args, env, token, hasGitDir,
                   hasReq, origin, resp, commitRes, auditRes, banditRes, pushedTo>>

\* main: create_license(root)
CreateLicense ==
    /\ pc = "create_license"
    /\ CallCreateLicense
    /\ trace' = Ended("create_license", "ok")
    /\ pc' = Following("create_license")
    /\ UNCHANGED <<giHist, giRets, exitCode, cmds, args, env, token, hasGitDir,
                   hasReq, origin, resp, commitRes, auditRes, banditRes, pushedTo>>

\* the captured outputs of a failing git commit, in chunks
IdentityText ==
    << "*** Please tell me who you are. Run git config --global ", "user.email",
       " and git config --global ", "user.name", NL >>
EmailText == << "fatal: unable to auto-detect email address; set ", "user.email", NL >>
NameText == << "fatal: empty ident name not allowed; set ", "user.name", NL >>
HookText == << "pre-commit hook failed", NL >>
NothingText == << "nothing to commit, working tree clean", NL >>

CommitStderrs == { <<>>, IdentityText, EmailText, NameText, HookText }
CommitStdouts == { NothingText, NameText }

IsSpace(c) == c = NL \/ c = " "

RECURSIVE LStrip(_)
LStrip(s) == IF s # <<>> /\ IsSpace(Head(s)) THEN LStrip(Tail(s)) ELSE s

RECURSIVE RStrip(_)
RStrip(s) == IF s # <<>> /\ IsSpace(Last(s)) THEN RStrip(SubSeq(s, 1, Len(s) - 1)) ELSE s

\* str.strip()
Strip(s) == LStrip(RStrip(s))

\* a or b or "" on captured outputs: the first that is not empty
FirstNonEmpty(a, b) == IF a # <<>> THEN a ELSE IF b # <<>> THEN b ELSE <<>>

\* msg of init_git: (e.stderr or e.stdout or "").strip()
CommitMsg(stderr, stdout) == Strip(FirstNonEmpty(stderr, stdout))

\* an identity test that looks for user.name alone
IsIdentityErrorNameOnly(msg) == InSeq("user.name", msg)

\* "user.name" in msg or "user.email" in msg
IsIdentityError(msg) == InSeq("user.name", msg) \/ InSeq("user.email", msg)

\* init_git(root)
InitGit ==
    /\ pc = "init_git"
    /\ \E initOk \in BOOLEAN, addOk \in BOOLEAN, commitOk \in BOOLEAN,
          stderr \in CommitStderrs, stdout \in CommitStdouts :
        LET ranInit == ~hasGitDir
            c0 == IF ranInit THEN Append(cmds, "git init") ELSE cmds
            o0 == out \cup {IF ranInit THEN "[git] Initialized repository"
                                       ELSE "[git] Already a repository"}
        IN IF ranInit /\ ~initOk
           THEN \* run(["git", "init"]) raises CalledProcessError
                /\ cmds' = c0
                /\ trace' = Ended("init_git", "init_failed")
                /\ out' = out \cup {"Traceback"}
                /\ Uncaught
                /\ UNCHANGED <<hasGitDir, commitRes>>
           ELSE IF ~addOk
           THEN \* run(["git", "add", "-A"]) raises CalledProcessError
                /\ cmds' = Append(c0, "git add -A")
                /\ hasGitDir' = TRUE
                /\ trace' = Ended("init_git", "add_failed")
                /\ out' = o0 \cup {"Traceback"}
                /\ Uncaught
                /\ UNCHANGED commitRes
           ELSE /\ cmds' = Append(Append(c0, "git add -A"), "git commit")
                /\ hasGitDir' = TRUE
                /\ IF commitOk
                   THEN /\ commitRes' = [ran |-> TRUE, ok |-> TRUE, stderr |-> <<>>,
                                         stdout |-> <<>>]
                        /\ out' = o0 \cup {"[git] Created initial commit"}
                        /\ trace' = Ended("init_git", "ok")
                        /\ pc' = Following("init_git")
                        /\ UNCHANGED exitCode
                   ELSE /\ commitRes' = [ran |-> TRUE, ok |-> FALSE, stderr |-> stderr,
                                         stdout |-> stdout]
                        /\ IF IsIdentityError(CommitMsg(stderr, stdout))
                           THEN /\ out' = o0 \cup {"[git] Commit failed. Set your identity:"}
                                /\ trace' = Ended("init_git", "identity")
                                /\ Exit(1)
                           ELSE /\ out' = o0 \cup {"[git] Nothing to commit or commit failed, continuing"}
                                /\ trace' = Ended("init_git", "commit_other")
                                /\ pc' = Following("init_git")
                                /\ UNCHANGED exitCode
    /\ UNCHANGED <<scaffoldVars, args, env, token, hasReq, origin, written, resp,
                   auditRes, banditRes, pushedTo>>

\* a pip_audit that lets the failed installation's exception out
AuditInstallFailedRaises ==
    /\ out' = out \cup {"[audit] pip-audit not found. Installing", "Traceback"}
    /\ Uncaught
    /\ UNCHANGED written

\* pip_audit: the handler of a failed installation (print, return None)
AuditInstallFailed ==
    /\ out' = out \cup {"[audit] pip-audit not found. Installing",
                        "[audit] Could not install pip-audit. Skipping."}
    /\ pc' = Following("pip_audit")
    /\ UNCHANGED <<exitCode, written>>

\* main: if not args.no_audit: pip_audit(root)
PipAudit ==
    /\ pc = "pip_audit"
    /\ ~args.no_audit
    /\ IF ~hasReq
       THEN /\ out' = out \cup {"[audit] No requirements.txt found, skipping dependency audit"}
            /\ auditRes' = [ran |-> TRUE, manifest |-> FALSE, version_ok |-> FALSE,
                            install |-> "not_run", rc |-> 0]
            /\ trace' = Ended("pip_audit", "no_manifest")
            /\ pc' = Following("pip_audit")
            /\ UNCHANGED <<cmds, exitCode, written>>
       ELSE \E versionOk \in BOOLEAN, installOk \in BOOLEAN, rc \in {0, 1} :
            LET c0 == Append(cmds, "pip_audit --version")
                c1 == IF versionOk THEN c0 ELSE Append(c0, "pip install pip-audit")
            IN IF ~versionOk /\ ~installOk
               THEN /\ cmds' = c1
                    /\ auditRes' = [ran |-> TRUE, manifest |-> TRUE, version_ok |-> FALSE,
                                    install |-> "failed", rc |-> 0]
                    /\ trace' = Ended("pip_audit", "install_failed")
                    /\ AuditInstallFailed
               ELSE /\ cmds' = Append(c1, "pip_audit -r requirements.txt")
                    /\ auditRes' = [ran |-> TRUE, manifest |-> TRUE, version_ok |-> versionOk,
                                    install |-> IF versionOk THEN "not_run" ELSE "ok",
                                    rc |-> rc]
                    /\ written' = written \cup {"pip-audit-report.txt"}
                    /\ out' = out \cup {IF rc = 0
                                        THEN "[audit] No known vulnerabilities (see pip-audit-report.txt)"
                                        ELSE "[audit] Vulnerabilities found (see pip-audit-report.txt)"}
                    /\ trace' = Ended("pip_audit", IF rc = 0 THEN "ok" ELSE "issues")
                    /\ pc' = Following("pip_audit")
                    /\ UNCHANGED exitCode
    /\ UNCHANGED <<scaffoldVars, args, env, token, hasGitDir, hasReq, origin, resp,
                   commitRes, banditRes, pushedTo>>

\* main: --no-audit was given, pip_audit is not called
SkipAudit ==
    /\ pc = "pip_audit"
    /\ args.no_audit
    /\ pc' = Following("pip_audit")
    /\ UNCHANGED <<scaffoldVars, exitCode, trace, out, cmds, args, env, token, hasGitDir,
                   hasReq, origin, written, resp, commitRes, auditRes, banditRes, pushedTo>>

\* main: if args.bandit: bandit_scan(root)
BanditScan ==
    /\ pc = "bandit_scan"
    /\ args.bandit
    /\ \E versionOk \in BOOLEAN, installOk \in BOOLEAN :
        LET c0 == Append(cmds, "bandit --version")
            c1 == IF versionOk THEN c0 ELSE Append(c0, "pip install bandit")
        IN IF ~versionOk /\ ~installOk
           THEN /\ cmds' = c1
                /\ banditRes' = [ran |-> TRUE, version_ok |-> FALSE, install |-> "failed"]
                /\ out' = out \cup {"[bandit] bandit not found. Installing",
                                    "[bandit] Could not install bandit. Skipping."}
                /\ trace' = Ended("bandit_scan", "install_failed")
                /\ UNCHANGED written
           ELSE /\ cmds' = Append(c1, "bandit -r .")
                \* the scan's return code is not read
                /\ banditRes' = [ran |-> TRUE, version_ok |-> versionOk,
                                 install |-> IF versionOk THEN "not_run" ELSE "ok"]
                /\ written' = written \cup {"bandit-report.txt"}
                /\ out' = out \cup {"[bandit] Finished (see bandit-report.txt)"}
                /\ trace' = Ended("bandit_scan", "ok")
    /\ pc' = Following("bandit_scan")
    /\ UNCHANGED <<scaffoldVars, exitCode, args, env, token, hasGitDir, hasReq, origin,
                   resp, commitRes, auditRes, pushedTo>>

\* main: --bandit was not given, bandit_scan is not called
SkipBandit ==
    /\ pc = "bandit_scan"
    /\ ~args.bandit
    /\ pc' = Following("bandit_scan")
    /\ UNCHANGED <<scaffoldVars, exitCode, trace, out, cmds, args, env, token, hasGitDir,
                   hasReq, origin, written, resp, commitRes, auditRes, banditRes, pushedTo>>

\* a or b of Python: a if it is true, else b
Or(a, b) == IF Truthy(a) THEN a ELSE b

\* main: token = os.environ.get("GITHUB_TOKEN") or os.environ.get("GH_TOKEN");
\* if not token: sys.exit(2)
TokenLookup ==
    /\ pc = "token"
    /\ token' = Or(env.GITHUB_TOKEN, env.GH_TOKEN)
    /\ IF ~Truthy(token')
       THEN /\ out' = out \cup {"[github] Missing token. Set GITHUB_TOKEN (repo scope) globally and rerun."}
            /\ trace' = Ended("token", "no_token")
            /\ Exit(2)
       ELSE /\ trace' = Ended("token", "ok")
            /\ pc' = Following("token")
            /\ UNCHANGED <<exitCode, out>>
    /\ UNCHANGED <<scaffoldVars, cmds, args, env, hasGitDir, hasReq, origin, written,
                   resp, commitRes, auditRes, banditRes, pushedTo>>

\* the keys a JSON body of the endpoint may hold
BodyKeys == {"clone_url", "html_url"}

\* a body that is a JSON object with the keys `keys`; json is FALSE for a body
\* resp.json() cannot decode
Body(json, keys, clone) ==
    [json |-> json, keys |-> keys, clone_url |-> clone, html_url |-> HtmlNew]

Bodies ==
    { Body(FALSE, {}, ""),
      Body(TRUE, {}, ""),
      Body(TRUE, {"html_url"}, ""),
      Body(TRUE, {"clone_url", "html_url"}, ""),
      Body(TRUE, {"clone_url", "html_url"}, UrlNew) }

Statuses == {201, 300, 422}

\* what requests.post may do: answer, or raise (timeout, no connection)
Responses ==
    [kind : {"answer"}, status : Statuses, body : Bodies]
    \cup {[kind |-> "exception", status |-> 0, body |-> Body(FALSE, {}, "")]}

\* data.get(key)
Get(body, key) == IF key \in body.keys THEN body[key] ELSE Unset

\* a create_github_repo that does not look for clone_url
CreateRaisesStatusOnly(r) ==
    \/ r.kind = "exception"
    \/ r.status >= 300
    \/ ~r.body.json

\* create_github_repo raises: requests.post raised, the status is 300 or more, the
\* body is no JSON, or data.get("clone_url") is false
CreateRaises(r) ==
    \/ r.kind = "exception"
    \/ r.status >= 300
    \/ ~r.body.json
    \/ ~Truthy(Get(r.body, "clone_url"))

\* main: the except clause of the try block: print the error, sys.exit(3)
MainExcept ==
    /\ out' = out \cup {"[github] Error"}
    /\ Exit(3)

\* main: data = create_github_repo(...)
CreateGithubRepo ==
    /\ pc = "create_github_repo"
    /\ cmds' = Append(cmds, "POST https://api.github.com/user/repos")
    /\ \E r \in Responses :
        /\ resp' = r
        /\ IF CreateRaises(r)
           THEN /\ trace' = Ended("create_github_repo", "create_error")
                /\ MainExcept
           ELSE /\ trace' = Ended("create_github_repo", "ok")
                /\ out' = out \cup {"[github] Created repo"}
                /\ pc' = Following("create_github_repo")
                /\ UNCHANGED exitCode
    /\ UNCHANGED <<scaffoldVars, args, env, token, hasGitDir, hasReq, origin, written,
                   commitRes, auditRes, banditRes, pushedTo>>

\* main: connect_remote_and_push(root, data["clone_url"], branch=args.branch)
ConnectRemoteAndPush ==
    /\ pc = "connect_remote_and_push"
    /\ \E listOk \in BOOLEAN, addOk \in BOOLEAN, pushOk \in BOOLEAN :
        LET clone_url == resp.body.clone_url
            \* remotes: the output of git remote, empty when the command failed
            seesOrigin == listOk /\ origin # NoRemote
            c0 == Append(Append(cmds, "git branch -M"), "git remote")
            \* git adds no remote under a name that is taken
            added == addOk /\ origin = NoRemote
        IN IF ~seesOrigin /\ ~added
           THEN /\ cmds' = Append(c0, "git remote add origin")
                /\ trace' = Ended("connect_remote_and_push", "remote_add_failed")
                /\ MainExcept
                /\ UNCHANGED <<origin, pushedTo>>
           ELSE /\ cmds' = Append(IF seesOrigin THEN c0
                                  ELSE Append(c0, "git remote add origin"),
                                  "git push -u origin")
                /\ origin' = IF seesOrigin THEN origin ELSE clone_url
                /\ pushedTo' = origin'
                /\ IF pushOk
                   THEN /\ out' = (out \cup {"[git] Pushed"})
                                  \cup (IF seesOrigin THEN {} ELSE {"[git] Added remote origin"})
                        /\ trace' = Ended("connect_remote_and_push", "ok")
                        /\ pc' = Following("connect_remote_and_push")
                        /\ UNCHANGED exitCode
                   ELSE /\ trace' = Ended("connect_remote_and_push", "push_failed")
                        /\ MainExcept
    /\ UNCHANGED <<scaffoldVars, args, env, token, hasGitDir, hasReq, written, resp,
                   commitRes, auditRes, banditRes>>

\* main: the final summary; main returns and the process ends with status 0
Summary ==
    /\ pc = "summary"
    /\ out' = out \cup {"Done."}
    /\ trace' = Ended("summary", "ok")
    /\ Exit(0)
    /\ UNCHANGED <<scaffoldVars, cmds, args, env, token, hasGitDir, hasReq, origin,
                   written, resp, commitRes, auditRes, banditRes, pushedTo>>

Next ==
    \/ EnsureGitInstalled
    \/ EnsureGitignore
    \/ CreateLicense
    \/ InitGit
    \/ PipAudit
    \/ SkipAudit
    \/ BanditScan
    \/ SkipBandit
    \/ TokenLookup
    \/ CreateGithubRepo
    \/ ConnectRemoteAndPush
    \/ Summary

\* one run of main
Spec == Init /\ [][Next]_vars

\* ------------------------------------------------- scaffolding called alone

Chunks == {NL, "my-notes/", "dist/"}

RECURSIVE TextsOfLen(_)
TextsOfLen(n) ==
    IF n = 0 THEN {<<>>}
    ELSE {Append(t, c) : t \in TextsOfLen(n - 1), c \in Chunks}

\* the texts of at most MaxFileLen chunks
Texts == UNION {TextsOfLen(n) : n \in 0..MaxFileLen}

\* .gitignore before the first call: none, a short text, the template, the template
\* and more
ScaffoldGitignores ==
    {NoFile} \cup {File(t) : t \in Texts}
    \cup {File(GITIGNORE_TEMPLATE), File(GITIGNORE_TEMPLATE \o <<"my-notes/">>)}

ScaffoldLicenses ==
    { NoFile, File(<<>>), File(<<"Apache License", NL>>), File(MIT_LICENSE) }

InitScaffold ==
    /\ giHist \in { <<f>> : f \in ScaffoldGitignores }
    /\ licHist \in { <<f>> : f \in ScaffoldLicenses }
    /\ giRets = <<>>
    /\ licRets = <<>>
    /\ pc = "scaffold"
    /\ exitCode = NoExit
    /\ trace = <<>>
    /\ out = {}
    /\ cmds = <<>>
    /\ args = [no_audit |-> FALSE, bandit |-> FALSE]
    /\ env = [GITHUB_TOKEN |-> Unset, GH_TOKEN |-> Unset]
    /\ token = Unset
    /\ hasGitDir = FALSE
    /\ hasReq = FALSE
    /\ origin = NoRemote
    /\ written = {}
    /\ resp = NoResponse
    /\ commitRes = NotRun
    /\ auditRes = NotRun
    /\ banditRes = NotRun
    /\ pushedTo = NoRemote

\* a call of ensure_gitignore(root) on the directory as the calls before left it
ScaffoldGitignore ==
    /\ pc = "scaffold"
    /\ Len(giRets) < MaxRuns
    /\ CallEnsureGitignore
    /\ UNCHANGED <<licHist, licRets, pc, exitCode, trace, cmds, args, env, token,
                   hasGitDir, hasReq, origin, resp, commitRes, auditRes, banditRes,
                   pushedTo>>

\* a call of create_license(root) on the directory as the calls before left it
ScaffoldLicense ==
    /\ pc = "scaffold"
    /\ Len(licRets) < MaxRuns
    /\ CallCreateLicense
    /\ UNCHANGED <<giHist, giRets, pc, exitCode, trace, cmds, args, env, token,
                   hasGitDir, hasReq, origin, resp, commitRes, auditRes, banditRes,
                   pushedTo>>

NextScaffold == ScaffoldGitignore \/ ScaffoldLicense

\* the two scaffolding functions called up to MaxRuns times each
SpecScaffold == InitScaffold /\ [][NextScaffold]_vars

\* ---------------------------------------------------------------- properties

\* the place of a step in StepOrder
Pos(step) == CHOOSE i \in 1..Len(StepOrder) : StepOrder[i] = step

Started(step) == \E i \in 1..Len(trace) : trace[i].step = step

EndedAs(step, kind) == \E i \in 1..Len(trace) : trace[i] = [step |-> step, kind |-> kind]

\* how the last step started ended, "none" before the first step
LastKind == IF trace = <<>> THEN "none" ELSE Last(trace).kind

LastStep == IF trace = <<>> THEN "none" ELSE Last(trace).step

Issued(c) == InSeq(c, cmds)

HasCredential == Truthy(env.GITHUB_TOKEN) \/ Truthy(env.GH_TOKEN)

\* C1: every run ends with an exit code that identifies its outcome: 0 only when
\* remote creation and push both succeeded, 1 only when git is not invocable or the
\* commit failed for missing identity, 2 only when no credential is set, 3 only when
\* remote creation or push failed.
C1_ExitCodeIdentifiesOutcome ==
    pc = "exit" =>
        /\ exitCode \in 0..3
        /\ exitCode = 0 =>
             /\ EndedAs("create_github_repo", "ok")
             /\ EndedAs("connect_remote_and_push", "ok")
        /\ exitCode = 1 => LastKind \in {"git_missing", "identity"}
        /\ exitCode = 2 => LastKind = "no_token"
        /\ exitCode = 3 => LastKind \in {"create_error", "remote_add_failed", "push_failed"}

\* C2: in a run where neither GITHUB_TOKEN nor GH_TOKEN holds a non-empty value, no
\* network call is attempted at any point of the run before it exits, whatever the
\* flags and the tools available (the claim's exit with code 2 comes after these
\* states, so that a network call found here is one made before that exit).
C2_NoNetworkWithoutCredential ==
    ~HasCredential => \A i \in 1..Len(cmds) : cmds[i] \notin NetworkCmds

\* a status outside 200..299
NonSuccess(status) == status < 200 \/ status > 299

\* the endpoint answered with a non-success status, or with a body without clone_url
BadAnswer ==
    /\ resp.kind = "answer"
    /\ NonSuccess(resp.status) \/ "clone_url" \notin resp.body.keys

\* C3: a push is attempted only after a successful remote creation; when the endpoint
\* answers with a non-success status or with a body lacking clone_url, an error is
\* printed, branch rename, remote add and push never run, and the exit code is 3.
C3_NoPushAfterFailedCreation ==
    /\ BadAnswer =>
         /\ "[github] Error" \in out
         /\ pc = "exit" /\ exitCode = 3
         /\ ~Issued("git branch -M")
         /\ ~Issued("git remote add origin")
         /\ ~Issued("git push -u origin")
    /\ Issued("git push -u origin") =>
         /\ resp.kind = "answer" /\ ~NonSuccess(resp.status)
         /\ "clone_url" \in resp.body.keys /\ resp.body.clone_url # ""

\* the endpoint answered 422 and the run ended with code 3
C3_Witness == resp.kind = "answer" /\ resp.status = 422 /\ exitCode = 3

\* C4: after a 201 answer holding clone_url and html_url, the push that is attempted
\* goes to the clone_url of the answer, whatever remotes the repository had.
C4_PushGoesToReturnedCloneUrl ==
    ( /\ resp.kind = "answer" /\ resp.status = 201
      /\ {"clone_url", "html_url"} \subseteq resp.body.keys
      /\ Issued("git push -u origin") )
    => pushedTo = resp.body.clone_url

\* C5: scaffolding is idempotent: every call after the first returns False, for
\* .gitignore and for LICENSE, and leaves the file as the first call left it.
C5_ScaffoldingIdempotent ==
    /\ \A k \in 2..Len(giRets) : giRets[k] = FALSE /\ giHist[k + 1] = giHist[2]
    /\ \A k \in 2..Len(licRets) : licRets[k] = FALSE /\ licHist[k + 1] = licHist[2]

\* a partial .gitignore was merged and a LICENSE created, and both were called twice
C5_Witness ==
    /\ Len(giRets) >= 2 /\ Len(licRets) >= 2
    /\ giHist[1].exists /\ giRets[1]
    /\ licRets[1]

RECURSIVE Count(_, _)
\* how many times line ln stands in lines
Count(ln, lines) ==
    IF lines = <<>> THEN 0
    ELSE (IF Head(lines) = ln THEN 1 ELSE 0) + Count(ln, Tail(lines))

Range(s) == {s[i] : i \in 1..Len(s)}

TemplateLines == Range(SplitLines(GITIGNORE_TEMPLATE))

\* .gitignore existed before the first call of ensure_gitignore, which has run
Merged == giHist[1].exists /\ Len(giHist) >= 2

\* the lines of .gitignore before and after that call
OldLines == SplitLines(giHist[1].text)
NewLines == SplitLines(giHist[2].text)

\* every line of old stands in new at the same place
KeepsLines(old, new) == Len(new) >= Len(old) /\ SubSeq(new, 1, Len(old)) = old

\* the template lines in `wanted` that old lacks stand once in new
AppendsOnce(wanted, old, new) ==
    \A ln \in wanted : ~InSeq(ln, old) => Count(ln, new) = 1

\* the lines of old among `lines` stand in new as often as in old
RepeatsNone(lines, old, new) ==
    \A ln \in lines : InSeq(ln, old) => Count(ln, new) = Count(ln, old)

\* C6 as stated: the merge keeps every original line in its place, appends every
\* template line missing from the original exactly once, the blank lines of the
\* template among them, and duplicates no line.
C6_EveryTemplateLineAppendedOnce ==
    Merged =>
        LET old == OldLines
            new == NewLines
        IN /\ KeepsLines(old, new)
           /\ AppendsOnce(TemplateLines, old, new)
           /\ RepeatsNone(Range(new), old, new)

\* C6, amended: the merge keeps every original line in its place, appends every
\* non-blank template line missing from the original exactly once, adds no other
\* line but at most one blank line, and repeats no non-blank line of the original.
C6_SupersetMerge ==
    Merged =>
        LET old == OldLines
            new == NewLines
        IN /\ KeepsLines(old, new)
           /\ AppendsOnce(TemplateLines \ {<<>>}, old, new)
           /\ RepeatsNone(Range(new) \ {<<>>}, old, new)
           /\ \A ln \in Range(new) \ {<<>>} : ~InSeq(ln, old) => ln \in TemplateLines
           /\ Count(<<>>, new) <= Count(<<>>, old) + 1

\* a .gitignore holding one template line and one line of its own was merged
C6_Witness ==
    /\ Merged
    /\ InSeq(<<"dist/">>, OldLines) /\ InSeq(<<"my-notes/">>, OldLines)
    /\ Len(NewLines) > Len(OldLines)

\* C7: a LICENSE that exists before the run is never changed, whatever it holds, and
\* create_license returns False.
C7_ExistingLicenseUntouched ==
    licHist[1].exists =>
        /\ \A k \in 1..Len(licHist) : licHist[k] = licHist[1]
        /\ \A k \in 1..Len(licRets) : licRets[k] = FALSE
        /\ "LICENSE" \notin written

\* a run that started with an empty LICENSE went through to the final summary
C7_Witness ==
    /\ licHist[1] = File(<<>>)
    /\ Len(licRets) = 1
    /\ pc = "exit" /\ exitCode = 0

\* the steps started are in the order of StepOrder, the audit only without --no-audit,
\* the scan only with --bandit
InOrder ==
    /\ \A i \in 1..Len(trace) : \A j \in 1..Len(trace) :
         i < j => Pos(trace[i].step) < Pos(trace[j].step)
    /\ Started("pip_audit") => ~args.no_audit
    /\ Started("bandit_scan") => args.bandit

\* the final summary comes after a push that succeeded
SummaryAfterPush ==
    Started("summary") =>
        /\ EndedAs("connect_remote_and_push", "ok")
        /\ Issued("git push -u origin")

\* C8 as stated: steps run in order, no step starts in a run where an earlier step
\* did not succeed, and the summary is printed only after a successful push.
C8_EveryStepGatedBySuccess ==
    /\ InOrder
    /\ \A i \in 1..(Len(trace) - 1) : trace[i].kind = "ok"
    /\ SummaryAfterPush

\* the ways a step ends that end the run
FatalKinds ==
    { "git_missing", "init_failed", "add_failed", "identity", "no_token",
      "create_error", "remote_add_failed", "push_failed" }

\* C8, amended: steps run in order, no step starts after a step that ended fatally
\* (git not invocable, git init or git add failing, commit failing for missing
\* identity, no credential, an error in remote creation, remote add or push), a run
\* goes on after a commit failure of another kind and after an audit or scan that is
\* skipped or reports issues, and the summary is printed only after a successful push.
C8_OrderedAndGatedByFatalSteps ==
    /\ InOrder
    /\ \A i \in 1..(Len(trace) - 1) : trace[i].kind \notin FatalKinds
    /\ (pc # "exit" /\ trace # <<>>) => LastKind \notin FatalKinds
    /\ SummaryAfterPush

\* a run went on after a commit failure and a failed installation, to the summary
C8_Witness ==
    /\ EndedAs("init_git", "commit_other")
    /\ EndedAs("pip_audit", "install_failed")
    /\ Started("bandit_scan")
    /\ Started("summary")

\* the captured output init_git reads: stderr, or stdout when stderr is empty
CommitOutput == IF commitRes.stderr # <<>> THEN commitRes.stderr ELSE commitRes.stdout

CommitFailed == commitRes.ran /\ ~commitRes.ok

MentionsIdentity == InSeq("user.name", CommitOutput) \/ InSeq("user.email", CommitOutput)

\* C9: a commit failure whose output mentions user.name or user.email prints the
\* guidance and exits with code 1 before any credential lookup or remote call; any
\* other commit failure is logged and the run goes on with the next step.
C9_IdentityFailureFatalOthersNot ==
    CommitFailed =>
        /\ MentionsIdentity =>
             /\ "[git] Commit failed. Set your identity:" \in out
             /\ pc = "exit" /\ exitCode = 1 /\ LastStep = "init_git"
             /\ ~Started("token") /\ token = Unset
             /\ \A i \in 1..Len(cmds) : cmds[i] \notin NetworkCmds
        /\ ~MentionsIdentity =>
             /\ "[git] Nothing to commit or commit failed, continuing" \in out
             /\ ~(pc = "exit" /\ LastStep = "init_git")
             /\ pc = "exit" => Started("token")

\* a commit failed with git's message about user.email and the run ended with code 1
C9_Witness ==
    /\ CommitFailed /\ commitRes.stderr = EmailText
    /\ exitCode = 1

\* C10: the audit and the scan never end the run: whatever the manifest check, the
\* tool check, the installation and the tool run give, the run reaches the credential
\* lookup; and a failed installation writes no report.
C10_AuditAndScanNeverFatal ==
    /\ (auditRes.ran \/ banditRes.ran) =>
         /\ LastStep \in {"pip_audit", "bandit_scan"} => pc \in {"bandit_scan", "token"}
         /\ pc = "exit" => Started("token")
    /\ (auditRes.ran /\ auditRes.manifest /\ auditRes.install = "failed") =>
         "pip-audit-report.txt" \notin written
    /\ (banditRes.ran /\ banditRes.install = "failed") =>
         "bandit-report.txt" \notin written

\* both installations failed and the run still got to the final summary
C10_Witness ==
    /\ auditRes.ran /\ auditRes.manifest /\ auditRes.install = "failed"
    /\ banditRes.ran /\ banditRes.install = "failed"
    /\ Started("token")
    /\ exitCode = 0

====
